---- MODULE Spec2Model ----
(***************************************************************************)
(* Model of perplexity.py: one invocation of the command-line client.      *)
(* main() constructs Perplexity(args), calls get_response(args.query) and  *)
(* exits.  The command line, the environment variable and the reply of the *)
(* remote service are the inputs.                                          *)
(*                                                                         *)
(* Strings whose characters matter (the query, JSON text) are sequences of *)
(* tokens: a token is a chunk of ordinary characters, a double quote or a  *)
(* backslash.  Other strings (model names, keys) are TLA+ strings.         *)
(***************************************************************************)
EXTENDS Integers, Sequences, FiniteSets, TLC

\* ------------------------------------------------------------------ bounds
MaxQueryLen == 2

\* --------------------------------------------------------------- constants
AVAILABLE_MODELS == {"sonar-reasoning-pro", "sonar-reasoning", "sonar-pro", "sonar"}

\* Python's None, distinct from every key string
None == "<None>"

Quote == "\""
Backslash == "\\"
QueryTokens == {"a", Quote, Backslash}

ApiUrl == "https://api.perplexity.ai/chat/completions"
SystemContent == <<"Be precise and concise.">>

\* ------------------------------------------------------------------ inputs
ModelArgs == AVAILABLE_MODELS \cup {"not-a-model"}
ApiKeyArgs == {None, "", "k1"}
EnvValues == {None, "", "e1"}
Queries == UNION {[1..n -> QueryTokens] : n \in 0..MaxQueryLen}

Args == [query : Queries, usage : BOOLEAN, citations : BOOLEAN,
         glow : BOOLEAN, api_key : ApiKeyArgs, model : ModelArgs]

\* what the remote service can answer
Statuses == {200, 401, 403, 500}
CitationLists == {<<>>, <<"a", "b">>}
UsageDicts == {<< <<"prompt_tokens", "10">>, <<"completion_tokens", "20">> >>}
ChoiceLists == {<<>>,
                <<[message |-> [role |-> "assistant"]]>>,
                <<[message |-> [role |-> "assistant", content |-> "x"]]>>}
BodyKeys == {"citations", "usage", "choices"}
Restrict(f, D) == [k \in D |-> f[k]]
Bodies == {Restrict([citations |-> c, usage |-> u, choices |-> ch], D) :
             c \in CitationLists, u \in UsageDicts, ch \in ChoiceLists,
             D \in SUBSET BodyKeys}
NoBody == Restrict([citations |-> <<>>], {})
\* a body with every field, as an error response may carry one
FullBody == [citations |-> <<"a", "b">>,
             usage |-> << <<"prompt_tokens", "10">>, <<"completion_tokens", "20">> >>,
             choices |-> <<[message |-> [role |-> "assistant", content |-> "x"]]>>]
NoReply == [kind |-> "none", status |-> 0, json |-> FALSE, body |-> NoBody]
Replies ==
    {[kind |-> "fault", status |-> 0, json |-> FALSE, body |-> NoBody]}
    \cup {[kind |-> "response", status |-> s, json |-> FALSE, body |-> NoBody] :
             s \in Statuses}
    \cup {[kind |-> "response", status |-> s, json |-> TRUE, body |-> FullBody] :
             s \in Statuses \ {200}}
    \cup {[kind |-> "response", status |-> 200, json |-> TRUE, body |-> b] :
             b \in Bodies}

\* ------------------------------------------------------------------- state
VARIABLES
    args,       \* the parsed command line
    env,        \* value of PERPLEXITY_API_KEY, None when unset
    pc,         \* position of main: "main", "constructed", "returned", "raised", "exited"
    setup,      \* the ApiConfig the client writes to
    use_glow,   \* Perplexity.use_glow
    envRead,    \* whether get_api_key_from_system was called
    sent,       \* the requests handed to requests.post, in order
    reply,      \* what the POST produced
    out,        \* standard output, one entry per print
    log,        \* the records passed to the logger
    exc,        \* the exception that left the try block, None if none
    exitCode    \* the exit code of the process once pc = "exited"

vars == <<args, env, pc, setup, use_glow, envRead, sent, reply, out, log, exc, exitCode>>

\* ----------------------------------------------------------------- helpers
Truthy(s) == s # None /\ s # ""

LogRec(level, msg, arg) == [level |-> level, msg |-> msg, arg |-> arg]

\* display(message, color, bold, bg_color): one print of the decorated message
Display(message, style) == [kind |-> "display", style |-> style, text |-> <<message>>]

Heading(name, glow) ==
    IF glow THEN [kind |-> "heading", style |-> "markdown", text |-> <<name>>]
            ELSE [kind |-> "heading", style |-> "banner", text |-> <<name>>]
Bullet(text) == [kind |-> "bullet", style |-> "plain", text |-> text]
Blank == [kind |-> "blank", style |-> "plain", text |-> <<>>]
Text(t) == [kind |-> "text", style |-> "plain", text |-> <<t>>]

\* bug: the allow-list is not consulted
ModelValidator_validate_anyModel(model) == TRUE

ModelValidator_validate(model) == model \in AVAILABLE_MODELS

\* bug: the environment variable is preferred to the explicit key
ResolveApiKey_envFirst(explicit, environ) ==
    IF Truthy(environ)
    THEN environ
    ELSE explicit

\* the key __init__ stores, None when it raises ApiKeyNotFoundException
ResolveApiKey(explicit, environ) ==
    IF ~Truthy(explicit)
    THEN environ
    ELSE explicit

\* json.dumps of a string: quoted, with quote and backslash escaped
RECURSIVE JsonEscape(_)
JsonEscape(s) ==
    IF s = <<>> THEN <<>>
    ELSE (IF Head(s) \in {Quote, Backslash} THEN <<Backslash, Head(s)>>
                                            ELSE <<Head(s)>>)
         \o JsonEscape(Tail(s))
JsonString(s) == <<Quote>> \o JsonEscape(s) \o <<Quote>>

Headers(cfg) ==
    [accept |-> "application/json",
     content_type |-> "application/json",
     Authorization |-> <<"Bearer ", cfg.api_key>>]

\* bug: an empty query is left out of the messages
QueryData_skipEmpty(cfg, message) ==
    [model |-> cfg.model,
     messages |-> IF message = <<>>
                  THEN <<[role |-> "system", content |-> SystemContent]>>
                  ELSE <<[role |-> "system", content |-> SystemContent],
                         [role |-> "user", content |-> message]>>]

QueryData(cfg, message) ==
    [model |-> cfg.model,
     messages |-> <<[role |-> "system", content |-> SystemContent],
                    [role |-> "user", content |-> message]>>]

JsonDumps(qd) ==
    [model |-> JsonString(<<qd.model>>),
     messages |-> [i \in 1..Len(qd.messages) |->
                     [role |-> JsonString(<<qd.messages[i].role>>),
                      content |-> JsonString(qd.messages[i].content)]]]

\* bug: the request is sent again
Post_retry(wire, request) == Append(Append(wire, request), request)

\* requests.post: the request goes on the wire once
Post(wire, request) == Append(wire, request)

\* bug: the markdown branch prints the keys without their values
ShowUsage_keysOnly(result, glow) ==
    <<Heading("Tokens", glow)>>
    \o [i \in 1..Len(result) |->
          IF glow THEN Bullet(<<result[i][1]>>)
                  ELSE Bullet(<<result[i][1], result[i][2]>>)]
    \o <<Blank>>

ShowUsage(result, glow) ==
    <<Heading("Tokens", glow)>>
    \o [i \in 1..Len(result) |-> Bullet(<<result[i][1], result[i][2]>>)]
    \o <<Blank>>

ShowCitations(result, glow) ==
    <<Heading("Citations", glow)>>
    \o [i \in 1..Len(result) |-> Bullet(<<result[i]>>)]
    \o <<Blank>>

\* bug: the text is printed before its header
ShowContent_textFirst(result, glow) == <<Text(result), Heading("Content", glow)>>

ShowContent(result, glow) == <<Heading("Content", glow), Text(result)>>

\* the 200 branch of get_response: what is printed, and the exception raised
RenderSuccess(rep, cfg, glow) ==
    IF ~rep.json THEN [out |-> <<>>, exc |-> "JSONDecodeError"]
    ELSE
    LET result == rep.body
        o1 == IF cfg.citations THEN ShowCitations(result["citations"], glow) ELSE <<>>
        o2 == IF cfg.usage THEN ShowUsage(result["usage"], glow) ELSE <<>>
    IN  IF cfg.citations /\ "citations" \notin DOMAIN result
        THEN [out |-> <<>>, exc |-> "KeyError"]
        ELSE IF cfg.usage /\ "usage" \notin DOMAIN result
        THEN [out |-> o1, exc |-> "KeyError"]
        ELSE IF "choices" \notin DOMAIN result
        THEN [out |-> o1 \o o2, exc |-> "KeyError"]
        ELSE IF Len(result["choices"]) = 0
        THEN [out |-> o1 \o o2, exc |-> "IndexError"]
        ELSE IF "content" \notin DOMAIN result["choices"][1].message
        THEN [out |-> o1 \o o2, exc |-> "KeyError"]
        ELSE [out |-> o1 \o o2
                      \o ShowContent(result["choices"][1].message.content, glow),
              exc |-> None]

\* bug: only 401 is told apart, every other status is rendered as a success
HandleResponse_renderOther(rep, cfg, glow) ==
    IF rep.status = 401
    THEN [out |-> <<Display("Invalid api key! ", "red")>>, log |-> <<>>, exc |-> None]
    ELSE LET r == RenderSuccess(rep, cfg, glow)
         IN  [out |-> r.out, log |-> <<>>, exc |-> r.exc]

\* lines 124-134: what get_response does with the response it received
HandleResponse(rep, cfg, glow) ==
    IF rep.status = 200
    THEN LET r == RenderSuccess(rep, cfg, glow)
         IN  [out |-> r.out, log |-> <<>>, exc |-> r.exc]
    ELSE IF rep.status = 401
    THEN [out |-> <<Display("Invalid api key! ", "red")>>, log |-> <<>>, exc |-> None]
    ELSE [out |-> <<>>, log |-> <<LogRec("error", "Error", rep.status)>>, exc |-> None]

\* -------------------------------------------------------------------- Init
Init ==
    /\ args \in Args
    /\ env \in EnvValues
    /\ pc = "main"
    /\ setup = [api_url |-> ApiUrl, api_key |-> None, usage |-> FALSE,
                citations |-> FALSE, model |-> None]
    /\ use_glow = FALSE
    /\ envRead = FALSE
    /\ sent = <<>>
    /\ reply = NoReply
    /\ out = <<>>
    /\ log = <<>>
    /\ exc = None
    /\ exitCode = -1

\* ----------------------------------------------------------------- actions
\* main, lines 194-196: Perplexity(args)
Construct ==
    /\ pc = "main"
    /\ LET l0 == <<LogRec("debug", "args", args)>>
       IN
       IF ~ModelValidator_validate(args.model)
       THEN /\ exc' = "InvalidSelectedModelException"
            /\ pc' = "raised"
            /\ log' = log \o l0
            /\ UNCHANGED <<setup, use_glow, envRead, out>>
       ELSE LET s1 == [setup EXCEPT !.model = args.model, !.usage = args.usage,
                                    !.citations = args.citations]
                api_key == ResolveApiKey(args.api_key, env)
            IN  /\ use_glow' = args.glow
                /\ envRead' = ~Truthy(args.api_key)
                /\ IF api_key = None
                   THEN /\ out' = Append(out, Display("Api key not found on system! ", "red"))
                        /\ log' = log \o l0
                                  \o <<LogRec("debug", "Api key not found on system!", None)>>
                        /\ exc' = "ApiKeyNotFoundException"
                        /\ pc' = "raised"
                        /\ setup' = s1
                   ELSE /\ log' = log \o l0 \o
                                  (IF ~Truthy(args.api_key)
                                   THEN <<LogRec("debug", "Api key found on system", api_key)>>
                                   ELSE <<>>)
                        /\ setup' = [s1 EXCEPT !.api_key = api_key]
                        /\ pc' = "constructed"
                        /\ UNCHANGED <<out, exc>>
    /\ UNCHANGED <<args, env, sent, reply, exitCode>>

\* main, line 197: perplexity.get_response(args.query)
GetResponse ==
    /\ pc = "constructed"
    /\ LET headers == Headers(setup)
           query_data == QueryData(setup, args.query)
           request == [url |-> setup.api_url, headers |-> headers,
                       data |-> JsonDumps(query_data)]
           l0 == <<LogRec("debug", "Headers", headers),
                   LogRec("debug", "Query data", query_data)>>
       IN  /\ sent' = Post(sent, request)
           /\ \E rep \in Replies :
                /\ reply' = rep
                /\ IF rep.kind = "fault"
                   THEN /\ exc' = "RequestException"
                        /\ pc' = "raised"
                        /\ log' = log \o l0
                        /\ UNCHANGED out
                   ELSE LET h == HandleResponse(rep, setup, use_glow)
                        IN  /\ out' = out \o h.out
                            /\ log' = log \o l0 \o h.log
                            /\ exc' = h.exc
                            /\ pc' = IF h.exc = None THEN "returned" ELSE "raised"
    /\ UNCHANGED <<args, env, setup, use_glow, envRead, exitCode>>

\* main, lines 198-200: except Exception -> sys.exit(1)
MainExcept ==
    /\ pc = "raised"
    /\ log' = Append(log, LogRec("debug", "An error occurred", exc))
    /\ exitCode' = 1
    /\ pc' = "exited"
    /\ UNCHANGED <<args, env, setup, use_glow, envRead, sent, reply, out, exc>>

\* main returns normally: the interpreter exits with code 0
MainReturn ==
    /\ pc = "returned"
    /\ exitCode' = 0
    /\ pc' = "exited"
    /\ UNCHANGED <<args, env, setup, use_glow, envRead, sent, reply, out, log, exc>>

Next == Construct \/ GetResponse \/ MainExcept \/ MainReturn

Spec == Init /\ [][Next]_vars

\* ------------------------------------------------------------------ claims
\* main has left Perplexity(args) and get_response behind
AfterCall == pc \in {"returned", "raised", "exited"}
Responded(status) == reply.kind = "response" /\ reply.status = status
ErrorRecords == SelectSeq(log, LAMBDA l : l.level = "error")
HeadingNames(o) ==
    LET h == SelectSeq(o, LAMBDA l : l.kind = "heading")
    IN  [i \in 1..Len(h) |-> h[i].text[1]]
Bullets(o) == SelectSeq(o, LAMBDA l : l.kind = "bullet")
\* a line without its decoration
Data(o) == [i \in 1..Len(o) |-> [kind |-> o[i].kind, text |-> o[i].text]]
ContentRendered == \E i \in 1..Len(out) : out[i].kind = "heading" /\ out[i].text = <<"Content">>

\* the fields of a 200 payload that rendering reads
HasContent(body) ==
    /\ "choices" \in DOMAIN body
    /\ Len(body["choices"]) > 0
    /\ "content" \in DOMAIN body["choices"][1].message
NeededPresent(body) ==
    /\ setup.citations => "citations" \in DOMAIN body
    /\ setup.usage => "usage" \in DOMAIN body
    /\ HasContent(body)

\* what the receiver of the JSON text reads back from a JSON string
RECURSIVE JsonUnescape(_)
JsonUnescape(s) ==
    IF s = <<>> THEN <<>>
    ELSE IF Head(s) = Backslash /\ Len(s) >= 2
         THEN <<s[2]>> \o JsonUnescape(Tail(Tail(s)))
         ELSE <<Head(s)>> \o JsonUnescape(Tail(s))
JsonParseString(j) == JsonUnescape(SubSeq(j, 2, Len(j) - 1))

\* C1: the exit code is 0 exactly when a 200 response was rendered through its
\* Content section; every terminal failure (invalid model, missing credential,
\* 401, other non-200 status, transport fault, 200 payload missing a field)
\* exits non-zero.
C1_ExitZeroIffRendered ==
    pc = "exited" => ((exitCode = 0) <=> (Responded(200) /\ ContentRendered))

\* C2: no POST is issued before validation has passed: with a model outside the
\* allow-list the invocation ends with InvalidSelectedModelException, with the
\* credential absent from both the command line and the environment it ends with
\* ApiKeyNotFoundException, the exit code is non-zero, and no request was sent.
C2_NoPostBeforeValidation ==
    LET failsWith(e) ==
            /\ sent = <<>>
            /\ pc \in {"main", "raised", "exited"}
            /\ pc # "main" => exc = e
            /\ pc = "exited" => exitCode # 0
    IN  /\ args.model \notin AVAILABLE_MODELS => failsWith("InvalidSelectedModelException")
        /\ (args.model \in AVAILABLE_MODELS /\ args.api_key = None /\ env = None)
               => failsWith("ApiKeyNotFoundException")
C2_Witness ==
    /\ pc = "exited"
    /\ args.model \in AVAILABLE_MODELS /\ args.api_key = None /\ env = None
    /\ exc = "ApiKeyNotFoundException"
    /\ sent = <<>>

\* C3: every request sent carries a non-empty API key in its Authorization
\* header, and an invocation whose credential is absent or empty in both the
\* command line and the environment fails with ApiKeyNotFoundException instead
\* of sending a request.
C3_KeyNonEmptyWhenSent ==
    /\ \A i \in 1..Len(sent) : Truthy(sent[i].headers.Authorization[2])
    /\ (args.model \in AVAILABLE_MODELS /\ ~Truthy(args.api_key) /\ ~Truthy(env) /\ pc # "main")
           => (sent = <<>> /\ exc = "ApiKeyNotFoundException")

\* C4: an invocation issues at most one POST, whatever the response or fault,
\* and exactly one once the model is valid and a credential was resolved.
C4_ExactlyOnePost ==
    /\ Len(sent) <= 1
    /\ (AfterCall /\ args.model \in AVAILABLE_MODELS
                  /\ (Truthy(args.api_key) \/ Truthy(env)))
           => Len(sent) = 1
C4_Witness ==
    /\ pc = "exited"
    /\ Responded(500)
    /\ Len(sent) = 1

\* C5: when a 200 payload lacks a field that rendering needs, the invocation
\* fails and has printed no section at all.
C5_NoPartialSuccess ==
    (AfterCall /\ Responded(200) /\ reply.json /\ ~NeededPresent(reply.body))
        => (exc # None /\ out = <<>>)

\* C6: on a 200 payload with every needed field the sections are printed in the
\* order Citations, Tokens (usage), Content; Citations iff citations were
\* requested, Tokens iff usage was requested, Content always and last, ending
\* with the assistant's text.
C6_SectionOrder ==
    (AfterCall /\ Responded(200) /\ reply.json /\ NeededPresent(reply.body))
        => /\ exc = None
           /\ HeadingNames(out) =
                  (IF setup.citations THEN <<"Citations">> ELSE <<>>)
                  \o (IF setup.usage THEN <<"Tokens">> ELSE <<>>)
                  \o <<"Content">>
           /\ Len(out) >= 2
           /\ out[Len(out) - 1].kind = "heading"
           /\ out[Len(out)] = Text(reply.body["choices"][1].message.content)
           /\ Len(Bullets(out)) =
                  (IF setup.citations THEN Len(reply.body["citations"]) ELSE 0)
                  + (IF setup.usage THEN Len(reply.body["usage"]) ELSE 0)
C6_Witness ==
    /\ pc = "exited"
    /\ Responded(200) /\ reply.json /\ NeededPresent(reply.body)
    /\ setup.citations /\ ~setup.usage
    /\ reply.body["citations"] = <<"a", "b">>
    /\ HeadingNames(out) = <<"Citations", "Content">>

\* C7: a non-200 response renders no payload data: a 401 prints exactly one
\* "Invalid api key" notice and no section; any other status prints nothing and
\* leaves one error record carrying the status code.
C7_NoPayloadOnFailure ==
    (AfterCall /\ reply.kind = "response" /\ reply.status # 200)
        => IF reply.status = 401
           THEN /\ out = <<Display("Invalid api key! ", "red")>>
                /\ ErrorRecords = <<>>
           ELSE /\ out = <<>>
                /\ ErrorRecords = <<LogRec("error", "Error", reply.status)>>
C7_Witness ==
    /\ pc = "exited"
    /\ Responded(500) /\ reply.json /\ HasContent(reply.body)
    /\ out = <<>>

\* C8: a non-empty explicit key always wins: the Authorization header carries
\* exactly that key and the environment variable is never read.
C8_ExplicitKeyWins ==
    Truthy(args.api_key)
        => /\ ~envRead
           /\ \A i \in 1..Len(sent) :
                  sent[i].headers.Authorization = <<"Bearer ", args.api_key>>
C8_Witness ==
    /\ Len(sent) = 1
    /\ args.api_key = "k1" /\ env = "e1"
    /\ sent[1].headers.Authorization = <<"Bearer ", "k1">>

\* C9: rendering a 200 payload in the other render mode gives the same lines
\* and the same outcome; only the decoration of the section headers differs.
C9_ModeInvariant ==
    (AfterCall /\ Responded(200))
        => LET other == HandleResponse(reply, setup, ~use_glow)
           IN  /\ exc = other.exc
               /\ Data(out) = Data(other.out)
               /\ \A i \in 1..Len(out) :
                      IF out[i].kind = "heading"
                      THEN out[i].style # other.out[i].style
                      ELSE out[i] = other.out[i]
C9_Witness ==
    /\ pc = "exited"
    /\ Responded(200) /\ reply.json /\ NeededPresent(reply.body)
    /\ setup.citations /\ setup.usage /\ use_glow
    /\ Len(Bullets(out)) = 4

\* C10: every request sent carries a model of the allow-list and exactly two
\* messages: the system instruction "Be precise and concise." and then the
\* user's query, unmodified, the empty query included.
C10_RequestShape ==
    \A i \in 1..Len(sent) :
        LET d == sent[i].data
        IN  /\ \E m \in AVAILABLE_MODELS : JsonParseString(d.model) = <<m>>
            /\ Len(d.messages) = 2
            /\ JsonParseString(d.messages[1].role) = <<"system">>
            /\ JsonParseString(d.messages[1].content) = <<"Be precise and concise.">>
            /\ JsonParseString(d.messages[2].role) = <<"user">>
            /\ JsonParseString(d.messages[2].content) = args.query
C10_Witness ==
    /\ Len(sent) = 1
    /\ args.query = <<>>
    /\ Len(sent[1].data.messages) = 2
====
